---- MODULE Spec2Model ----
(***************************************************************************)
(* A model of the terminal classifier of src/src/lib.rs: is(stream) and    *)
(* isnt(stream), their four build-time strategies (unix, hermit, windows,  *)
(* wasm32/sgx), the Windows console probe console_on_any and the MSYS      *)
(* file-name heuristic msys_tty_on.  The operating system's stream state   *)
(* (descriptors, standard handles, the names bound to them) is the         *)
(* environment the calls read.                                             *)
(***************************************************************************)
EXTENDS Integers, Sequences, FiniteSets, TLC

\* windows_sys::Win32::Foundation::MAX_PATH, the capacity of FileName in u16 units
MAX_PATH == 260

\* the number of threads that call is/isnt concurrently
NumThreads == 2

Threads == 1..NumThreads

\* the thread of the sequential specification
MainThread == CHOOSE t \in Threads : \A u \in Threads : t <= u

\* the element of a singleton; The({e : x \in {v}}) is e with x standing for v
The(S) == CHOOSE x \in S : TRUE

\* pub enum Stream
Stream == {"Stdout", "Stderr", "Stdin"}

\* the two public functions
Fn == {"is", "isnt"}

(***************************************************************************)
(* Build targets: the cfg values the four definitions of `is` are gated on *)
(***************************************************************************)
Targets ==
    { [name |-> "x86_64-unknown-linux-gnu",    unix |-> TRUE,  windows |-> FALSE,
       arch |-> "x86_64", env |-> "gnu",  os |-> "linux"],
      [name |-> "x86_64-pc-windows-msvc",      unix |-> FALSE, windows |-> TRUE,
       arch |-> "x86_64", env |-> "msvc", os |-> "windows"],
      [name |-> "wasm32-unknown-emscripten",   unix |-> TRUE,  windows |-> FALSE,
       arch |-> "wasm32", env |-> "",     os |-> "emscripten"],
      [name |-> "wasm32-wasi",                 unix |-> FALSE, windows |-> FALSE,
       arch |-> "wasm32", env |-> "",     os |-> "wasi"],
      [name |-> "x86_64-fortanix-unknown-sgx", unix |-> FALSE, windows |-> FALSE,
       arch |-> "x86_64", env |-> "sgx",  os |-> "unknown"],
      [name |-> "x86_64-unknown-hermit",       unix |-> FALSE, windows |-> FALSE,
       arch |-> "x86_64", env |-> "",     os |-> "hermit"] }

\* cfg(unix) alone, the wasm32 exclusion left out
cfg_unix_any(tg) == tg.unix

\* #[cfg(all(unix, not(target_arch = "wasm32")))]
cfg_unix(tg) == tg.unix /\ ~(tg.arch = "wasm32")

\* #[cfg(target_os = "hermit")]
cfg_hermit(tg) == tg.os = "hermit"

\* #[cfg(windows)]
cfg_windows(tg) == tg.windows

\* #[cfg(any(target_arch = "wasm32", target_env = "sgx"))]
cfg_degenerate(tg) == tg.arch = "wasm32" \/ tg.env = "sgx"

\* the definitions of `is` that are compiled for a target
Strategies(tg) ==
    {s \in {"unix"}       : cfg_unix(tg)}
    \cup {s \in {"hermit"}     : cfg_hermit(tg)}
    \cup {s \in {"windows"}    : cfg_windows(tg)}
    \cup {s \in {"degenerate"} : cfg_degenerate(tg)}

(***************************************************************************)
(* UTF-16 names and the markers looked for in them                         *)
(***************************************************************************)
\* "msys-"
MSYS == <<109, 115, 121, 115, 45>>

\* "cygwin-"
CYGWIN == <<99, 121, 103, 119, 105, 110, 45>>

\* "-pty"
PTY == <<45, 112, 116, 121>>

\* str::contains: the needle occurs as a contiguous run of chars of the
\* haystack h
Contains(hay, needle) ==
    \E h \in {hay} :
        \E i \in 1..(Len(h) - Len(needle) + 1) :
            \A j \in 1..Len(needle) : h[i + j - 1] = needle[j]

\* char::decode_utf16: high and low surrogates
IsHigh(x) == x >= 55296 /\ x <= 56319

IsLow(x) == x >= 56320 /\ x <= 57343

\* unit i is the second half of a pair: a high surrogate always starts a char
PairedLow(u, i) == i > 1 /\ IsHigh(u[i - 1]) /\ IsLow(u[i])

\* the units at which a char starts, in order
CharStarts(u) == SelectSeq([i \in 1..Len(u) |-> i], LAMBDA i : ~PairedLow(u, i))

\* the char that starts at unit i
CharAt(u, i) ==
    IF ~IsHigh(u[i]) /\ ~IsLow(u[i]) THEN u[i]
    ELSE IF IsHigh(u[i]) /\ i < Len(u) /\ IsLow(u[i + 1])
    THEN 65536 + (u[i] - 55296) * 1024 + (u[i + 1] - 56320)
    ELSE 65533

\* String::from_utf16_lossy: surrogate pairs become one char, an unpaired
\* surrogate becomes U+FFFD, every other unit is its own char (v: the units,
\* starts: where their chars start)
from_utf16_lossy(u) ==
    The(UNION { { [k \in 1..Len(starts) |-> CharAt(v, starts[k])] : starts \in {CharStarts(v)} }
                : v \in {u} })

\* n copies of the unit 'a'
Pad(n) == [i \in 1..n |-> 97]

\* "\msys-" ++ padding ++ "-pty0", n units long in all
MsysPtyName(n) == <<92>> \o MSYS \o Pad(n - 11) \o PTY \o <<48>>

(***************************************************************************)
(* The operating system's stream state                                     *)
(***************************************************************************)
\* STD_INPUT_HANDLE, STD_OUTPUT_HANDLE, STD_ERROR_HANDLE
StdHandles == {"STD_INPUT", "STD_OUTPUT", "STD_ERROR"}

\* STDIN_FILENO, STDOUT_FILENO, STDERR_FILENO
Fds == {0, 1, 2}

\* what a descriptor can be: a terminal, something else, or not open at all
FdStates == {"tty", "pipe", "closed"}

\* the objects a standard handle can be bound to, by what a file-name query
\* on them finds: "none" has no name (a console, a closed or invalid handle)
Objects ==
    {"none", "msys-pty", "cygwin-pty", "pty-file", "msys-pipe", "msys-astral",
     "msys-pty-half", "msys-pty-over-half", "msys-pty-too-long"}

\* the name of an object, in UTF-16 units
NameOf(obj) ==
    CASE obj = "msys-pty"    -> <<92>> \o MSYS \o <<49, 56>> \o PTY \o <<48>>           \* \msys-18-pty0
      [] obj = "cygwin-pty"  -> <<92>> \o CYGWIN \o <<49, 56>> \o PTY \o <<49>>         \* \cygwin-18-pty1
      [] obj = "pty-file"    -> <<92, 111, 117, 116>> \o PTY \o <<46, 108, 111, 103>>   \* \out-pty.log
      [] obj = "msys-pipe"   -> <<92>> \o MSYS \o <<49, 56>>                            \* \msys-18
      [] obj = "msys-astral" -> <<92>> \o MSYS \o <<55357, 56832, 55296>> \o PTY        \* \msys-, U+1F600, a lone surrogate, -pty
      [] obj = "msys-pty-half"      -> MsysPtyName(MAX_PATH \div 2)
      [] obj = "msys-pty-over-half" -> MsysPtyName(MAX_PATH \div 2 + 1)
      [] obj = "msys-pty-too-long"  -> MsysPtyName(MAX_PATH + 1)
      [] obj = "none"        -> <<>>

\* NameOf, tabulated
FileNames == [obj \in Objects |-> NameOf(obj)]

\* a standard handle: whether it is a console, and the object a file-name query sees
HandleStates ==
    [console : {FALSE}, info : Objects] \cup [console : {TRUE}, info : {"none", "msys-pty"}]

\* a reduced set, for the specification with several threads
ConcHandleStates ==
    { [console |-> TRUE,  info |-> "none"],
      [console |-> FALSE, info |-> "none"],
      [console |-> FALSE, info |-> "msys-pty"],
      [console |-> FALSE, info |-> "msys-pty-over-half"] }

\* what an external actor rebinds a standard handle to
RedirectStates ==
    { [console |-> TRUE,  info |-> "none"],
      [console |-> FALSE, info |-> "none"],
      [console |-> FALSE, info |-> "msys-pty"] }

DefaultHandles == [h \in StdHandles |-> [console |-> FALSE, info |-> "none"]]

DefaultFds == [d \in Fds |-> "closed"]

\* the stream states a process on the target can start with
StreamStates(tg, hs) ==
    IF cfg_windows(tg)
    THEN [handles : [StdHandles -> hs], fds : {DefaultFds}]
    ELSE IF cfg_unix(tg) \/ cfg_hermit(tg)
    THEN [handles : {DefaultHandles}, fds : [Fds -> FdStates]]
    ELSE [handles : {DefaultHandles}, fds : {DefaultFds}]

\* libc::isatty / hermit_abi::isatty: 1 on a terminal, 0 otherwise (ENOTTY, EBADF)
isatty(st, fd) == IF st.fds[fd] = "tty" THEN 1 ELSE 0

\* GetStdHandle: the object behind a standard handle id
GetStdHandle(st, fd) == st.handles[fd]

\* GetConsoleMode: nonzero exactly on a console handle
GetConsoleMode(handle) == IF handle.console THEN 1 ELSE 0

\* size_of::<FILE_NAME_INFO>(): a u32 and MAX_PATH u16 units
SizeOfNameInfo == 4 + 2 * MAX_PATH

\* let mut name_info = FILE_NAME_INFO { FileNameLength: 0, FileName: [0; MAX_PATH] }
ZeroNameInfo == [FileNameLength |-> 0, FileName |-> [i \in 1..MAX_PATH |-> 0]]

\* GetFileInformationByHandleEx(handle, FileNameInfo, buf, size): fails on a
\* handle with no name; fails with the length and the units that fit when the
\* name is longer than the buffer; otherwise writes the byte length and the name
GetFileInformationByHandleEx(handle, buf, size) ==
    IF handle.info = "none" THEN [res |-> 0, name_info |-> buf]
    ELSE The({ [res |-> IF 4 + 2 * Len(n) > size THEN 0 ELSE 1,
                name_info |-> [FileNameLength |-> 2 * Len(n),
                               FileName |-> [i \in 1..MAX_PATH |->
                                               IF i <= Len(n) THEN n[i] ELSE buf.FileName[i]]]] :
               n \in {FileNames[handle.info]} })

\* a probe that closes the handle or descriptor it was given
AfterProbeClosing(st, probe) ==
    IF probe[1] # "isatty"
    THEN [st EXCEPT !.handles[probe[2]] = [console |-> FALSE, info |-> "none"]]
    ELSE [st EXCEPT !.fds[probe[2]] = "closed"]

\* what a probe leaves of the stream state: the handle is borrowed from the
\* system, and is neither closed, duplicated nor replaced
AfterProbe(st, probe) == st

RECURSIVE AfterProbes(_, _)
AfterProbes(st, probes) ==
    IF probes = <<>> THEN st
    ELSE AfterProbes(AfterProbe(st, Head(probes)), Tail(probes))

(***************************************************************************)
(* The library: what one call computes.  A call's outcome is the value it  *)
(* returns (or that it panicked), the native probes it made, in order, and *)
(* the end of the range it sliced FileName with (-1: never sliced).        *)
(***************************************************************************)
Returned(v, ps, se) == [panic |-> FALSE, val |-> v, probes |-> ps, sliceEnd |-> se]

Panicked(ps, se) == [panic |-> TRUE, val |-> FALSE, probes |-> ps, sliceEnd |-> se]

\* the match with the arms of Stdout and Stderr exchanged
unix_fd_swapped(stream) ==
    CASE stream = "Stdout" -> 2
      [] stream = "Stderr" -> 1
      [] stream = "Stdin"  -> 0

\* unix: the match of stream to libc::STD*_FILENO
unix_fd(stream) ==
    CASE stream = "Stdout" -> 1
      [] stream = "Stderr" -> 2
      [] stream = "Stdin"  -> 0

\* hermit: the match of stream to hermit_abi::STD*_FILENO
hermit_fd(stream) ==
    CASE stream = "Stdout" -> 1
      [] stream = "Stderr" -> 2
      [] stream = "Stdin"  -> 0

\* the match with the handles of Stdout and Stderr exchanged
windows_fd_swapped(stream) ==
    CASE stream = "Stdin"  -> "STD_INPUT"
      [] stream = "Stderr" -> "STD_OUTPUT"
      [] stream = "Stdout" -> "STD_ERROR"

\* windows: the first component of `let (fd, others) = match stream`
windows_fd(stream) ==
    CASE stream = "Stdin"  -> "STD_INPUT"
      [] stream = "Stderr" -> "STD_ERROR"
      [] stream = "Stdout" -> "STD_OUTPUT"

\* the match with Stdout's own handle among its others, in place of STD_ERROR
windows_others_self(stream) ==
    CASE stream = "Stdin"  -> <<"STD_ERROR", "STD_OUTPUT">>
      [] stream = "Stderr" -> <<"STD_INPUT", "STD_OUTPUT">>
      [] stream = "Stdout" -> <<"STD_INPUT", "STD_OUTPUT">>

\* windows: the second component of `let (fd, others) = match stream`
windows_others(stream) ==
    CASE stream = "Stdin"  -> <<"STD_ERROR", "STD_OUTPUT">>
      [] stream = "Stderr" -> <<"STD_INPUT", "STD_OUTPUT">>
      [] stream = "Stdout" -> <<"STD_INPUT", "STD_ERROR">>

\* unix `is`: unsafe { libc::isatty(fd) != 0 }
is_unix(st, stream) ==
    LET fd == unix_fd(stream)
    IN  Returned(isatty(st, fd) # 0, << <<"isatty", fd>> >>, -1)

\* hermit `is`: hermit_abi::isatty(fd)
is_hermit(st, stream) ==
    LET fd == hermit_fd(stream)
    IN  Returned(isatty(st, fd) = 1, << <<"isatty", fd>> >>, -1)

\* wasm32 / sgx `is`: false
is_degenerate(st, stream) == Returned(FALSE, <<>>, -1)

\* console_on_any: the loop over fds, returning at the first console
RECURSIVE console_on_any(_, _)
console_on_any(st, fds) ==
    IF fds = <<>> THEN [found |-> FALSE, probes |-> <<>>]
    ELSE IF GetConsoleMode(GetStdHandle(st, Head(fds))) # 0
    THEN [found |-> TRUE, probes |-> << <<"GetConsoleMode", Head(fds)>> >>]
    ELSE The({ [found |-> rest.found, probes |-> << <<"GetConsoleMode", Head(fds)>> >> \o rest.probes] :
               rest \in {console_on_any(st, Tail(fds))} })

\* msys_tty_on without `if res == 0 { return false; }`
msys_name_check_unchecked(handle) ==
    The({ IF q.name_info.FileNameLength > MAX_PATH
          THEN [panic |-> TRUE, val |-> FALSE, sliceEnd |-> q.name_info.FileNameLength]
          ELSE The({ [panic |-> FALSE,
                      val |-> (Contains(name, MSYS) \/ Contains(name, CYGWIN)) /\ Contains(name, PTY),
                      sliceEnd |-> q.name_info.FileNameLength] :
                     name \in {from_utf16_lossy(SubSeq(q.name_info.FileName, 1, q.name_info.FileNameLength))} }) :
          q \in {GetFileInformationByHandleEx(handle, ZeroNameInfo, SizeOfNameInfo)} })

\* msys_tty_on, from the handle on: the file-name query q into the zeroed
\* buffer, the slice s of FileName by FileNameLength, and the search of the
\* name for the two markers (is_msys && is_pty).  Yields the value (or the
\* panic of an out-of-range slice) and the end of the slice
msys_name_check(handle) ==
    The({ IF q.res = 0 THEN [panic |-> FALSE, val |-> FALSE, sliceEnd |-> -1]
          ELSE IF q.name_info.FileNameLength > MAX_PATH
          THEN [panic |-> TRUE, val |-> FALSE, sliceEnd |-> q.name_info.FileNameLength]
          ELSE The({ [panic |-> FALSE,
                      val |-> (Contains(name, MSYS) \/ Contains(name, CYGWIN)) /\ Contains(name, PTY),
                      sliceEnd |-> q.name_info.FileNameLength] :
                     name \in {from_utf16_lossy(SubSeq(q.name_info.FileName, 1, q.name_info.FileNameLength))} }) :
          q \in {GetFileInformationByHandleEx(handle, ZeroNameInfo, SizeOfNameInfo)} })

\* msys_name_check tabulated by the object behind the handle, the only thing
\* the query reads
MsysNameCheck == [obj \in Objects |-> msys_name_check([console |-> FALSE, info |-> obj])]

\* msys_tty_on
msys_tty_on(st, fd) ==
    The({ IF c.panic
          THEN Panicked(<< <<"GetFileInformationByHandleEx", fd>> >>, c.sliceEnd)
          ELSE Returned(c.val, << <<"GetFileInformationByHandleEx", fd>> >>, c.sliceEnd) :
          c \in {MsysNameCheck[GetStdHandle(st, fd).info]} })

\* windows `is`
is_windows(st, stream) ==
    The({ IF first.found THEN Returned(TRUE, first.probes, -1)
          ELSE IF second.found THEN Returned(FALSE, first.probes \o second.probes, -1)
          ELSE [third EXCEPT !.probes = first.probes \o second.probes \o third.probes] :
            first  \in {console_on_any(st, <<windows_fd(stream)>>)},
            second \in {console_on_any(st, windows_others(stream))},
            third  \in {msys_tty_on(st, windows_fd(stream))} })

\* `is`, by the definition compiled in
is(strategy, st, stream) ==
    CASE strategy = "unix"       -> is_unix(st, stream)
      [] strategy = "hermit"     -> is_hermit(st, stream)
      [] strategy = "windows"    -> is_windows(st, stream)
      [] strategy = "degenerate" -> is_degenerate(st, stream)

\* isnt without the negation
isnt_same(strategy, st, stream) == is(strategy, st, stream)

\* pub fn isnt(stream: Stream) -> bool { !is(stream) }
isnt(strategy, st, stream) ==
    The({ IF r.panic THEN r ELSE [r EXCEPT !.val = ~r.val] : r \in {is(strategy, st, stream)} })

(***************************************************************************)
(* State                                                                   *)
(***************************************************************************)
VARIABLES
    target,     \* the build target
    os,         \* the stream state: standard handles / descriptors
    pc,         \* per thread: "idle", a probe about to be made, "done", "panicked"
    fn,         \* per thread: the function of the current or last call
    stream,     \* per thread: its selector
    result,     \* per thread: the value the call returned
    probes,     \* per thread: the native probes the call made
    sliceEnd,   \* per thread: the end of the FileName slice, -1 if none
    idx,        \* per thread: the position in `others` of console_on_any's loop
    last        \* per thread: the call completed before the current one

vars == <<target, os, pc, fn, stream, result, probes, sliceEnd, idx, last>>

NoLast == [valid |-> FALSE, fn |-> "is", stream |-> "Stdin", val |-> FALSE]

InitThreads ==
    /\ pc = [t \in Threads |-> "idle"]
    /\ fn = [t \in Threads |-> "is"]
    /\ stream = [t \in Threads |-> "Stdin"]
    /\ result = [t \in Threads |-> FALSE]
    /\ probes = [t \in Threads |-> <<>>]
    /\ sliceEnd = [t \in Threads |-> -1]
    /\ idx = [t \in Threads |-> 1]
    /\ last = [t \in Threads |-> NoLast]

Init ==
    /\ target \in Targets
    /\ os \in StreamStates(target, HandleStates)
    /\ InitThreads

\* the record of a completed call, kept while the next one runs
Completed(t) ==
    IF pc[t] = "done"
    THEN [valid |-> TRUE, fn |-> fn[t], stream |-> stream[t], val |-> result[t]]
    ELSE NoLast

\* a call of f(s) on thread t, run without interruption
Call(t, f, s) ==
    /\ pc[t] \in {"idle", "done"}
    /\ \E strategy \in Strategies(target) :
         \E r \in {IF f = "is" THEN is(strategy, os, s) ELSE isnt(strategy, os, s)} :
             /\ os' = AfterProbes(os, r.probes)
             /\ pc' = [pc EXCEPT ![t] = IF r.panic THEN "panicked" ELSE "done"]
             /\ result' = [result EXCEPT ![t] = r.val]
             /\ probes' = [probes EXCEPT ![t] = r.probes]
             /\ sliceEnd' = [sliceEnd EXCEPT ![t] = r.sliceEnd]
    /\ fn' = [fn EXCEPT ![t] = f]
    /\ stream' = [stream EXCEPT ![t] = s]
    /\ last' = [last EXCEPT ![t] = Completed(t)]
    /\ UNCHANGED <<target, idx>>

Is(t, s) == Call(t, "is", s)

Isnt(t, s) == Call(t, "isnt", s)

\* an external actor rebinds one standard handle or descriptor of the running
\* process (a panic of the calling thread has ended it); results obtained
\* before say nothing about the new state and are dropped
Forget ==
    /\ \A t \in Threads : pc[t] # "panicked"
    /\ pc' = [t \in Threads |-> IF pc[t] = "done" THEN "idle" ELSE pc[t]]
    /\ last' = [t \in Threads |-> NoLast]
    /\ UNCHANGED <<target, fn, stream, result, probes, sliceEnd, idx>>

RedirectHandle(h, hs) ==
    /\ cfg_windows(target)
    /\ os.handles[h] # hs
    /\ os' = [os EXCEPT !.handles[h] = hs]
    /\ Forget

RedirectFd(d, ds) ==
    /\ cfg_unix(target) \/ cfg_hermit(target)
    /\ os.fds[d] # ds
    /\ os' = [os EXCEPT !.fds[d] = ds]
    /\ Forget

Next ==
    \/ \E s \in Stream : Is(MainThread, s)
    \/ \E s \in Stream : Isnt(MainThread, s)
    \/ \E h \in StdHandles, hs \in RedirectStates : RedirectHandle(h, hs)
    \/ \E d \in Fds, ds \in FdStates : RedirectFd(d, ds)

Spec == Init /\ [][Next]_vars

(***************************************************************************)
(* Several threads: the same calls, one native probe per step              *)
(***************************************************************************)
ConcInit ==
    /\ target \in Targets
    /\ os \in StreamStates(target, ConcHandleStates)
    /\ InitThreads

\* where the body of each definition of `is` starts
FirstStep(strategy) ==
    CASE strategy = "unix"       -> "unix_isatty"
      [] strategy = "hermit"     -> "hermit_isatty"
      [] strategy = "windows"    -> "console_fd"
      [] strategy = "degenerate" -> "false"

\* thread t enters f(s)
Enter(t, f, s) ==
    /\ pc[t] \in {"idle", "done"}
    /\ \E strategy \in Strategies(target) :
         pc' = [pc EXCEPT ![t] = FirstStep(strategy)]
    /\ fn' = [fn EXCEPT ![t] = f]
    /\ stream' = [stream EXCEPT ![t] = s]
    /\ result' = [result EXCEPT ![t] = FALSE]
    /\ probes' = [probes EXCEPT ![t] = <<>>]
    /\ sliceEnd' = [sliceEnd EXCEPT ![t] = -1]
    /\ idx' = [idx EXCEPT ![t] = 1]
    /\ UNCHANGED <<target, os, last>>

\* thread t makes the probes ps and `is` ends with outcome r; isnt negates
Leave(t, r, ps) ==
    /\ os' = AfterProbes(os, ps)
    /\ pc' = [pc EXCEPT ![t] = IF r.panic THEN "panicked" ELSE "done"]
    /\ result' = [result EXCEPT ![t] = IF fn[t] = "isnt" /\ ~r.panic THEN ~r.val ELSE r.val]
    /\ probes' = [probes EXCEPT ![t] = probes[t] \o ps]
    /\ sliceEnd' = [sliceEnd EXCEPT ![t] = r.sliceEnd]
    /\ idx' = [idx EXCEPT ![t] = 1]
    /\ UNCHANGED <<target, fn, stream, last>>

\* thread t makes the probes ps and goes on to step p of `is`
Goto(t, p, i, ps) ==
    /\ os' = AfterProbes(os, ps)
    /\ pc' = [pc EXCEPT ![t] = p]
    /\ probes' = [probes EXCEPT ![t] = probes[t] \o ps]
    /\ idx' = [idx EXCEPT ![t] = i]
    /\ UNCHANGED <<target, fn, stream, result, sliceEnd, last>>

\* unix: libc::isatty(fd) != 0
StepUnix(t) ==
    /\ pc[t] = "unix_isatty"
    /\ \E r \in {is_unix(os, stream[t])} : Leave(t, r, r.probes)

\* hermit: hermit_abi::isatty(fd)
StepHermit(t) ==
    /\ pc[t] = "hermit_isatty"
    /\ \E r \in {is_hermit(os, stream[t])} : Leave(t, r, r.probes)

\* wasm32 / sgx: false
StepFalse(t) ==
    /\ pc[t] = "false"
    /\ \E r \in {is_degenerate(os, stream[t])} : Leave(t, r, r.probes)

\* windows: if console_on_any(&[fd]) { return true }
StepConsoleFd(t) ==
    /\ pc[t] = "console_fd"
    /\ \E c \in {console_on_any(os, <<windows_fd(stream[t])>>)} :
           IF c.found
           THEN Leave(t, Returned(TRUE, <<>>, -1), c.probes)
           ELSE Goto(t, "console_others", 1, c.probes)

\* windows: one turn of the loop of console_on_any(&others); return false on
\* a console, and msys_tty_on(fd) comes after the last turn
StepConsoleOthers(t) ==
    /\ pc[t] = "console_others"
    /\ \E c \in {console_on_any(os, <<windows_others(stream[t])[idx[t]]>>)} :
           IF c.found
           THEN Leave(t, Returned(FALSE, <<>>, -1), c.probes)
           ELSE IF idx[t] < Len(windows_others(stream[t]))
           THEN Goto(t, "console_others", idx[t] + 1, c.probes)
           ELSE Goto(t, "msys", 1, c.probes)

\* windows: msys_tty_on(fd)
StepMsys(t) ==
    /\ pc[t] = "msys"
    /\ \E r \in {msys_tty_on(os, windows_fd(stream[t]))} : Leave(t, r, r.probes)

ConcNext ==
    \E t \in Threads :
        \/ \E f \in Fn, s \in Stream : Enter(t, f, s)
        \/ StepUnix(t)
        \/ StepHermit(t)
        \/ StepFalse(t)
        \/ StepConsoleFd(t)
        \/ StepConsoleOthers(t)
        \/ StepMsys(t)

ConcSpec == ConcInit /\ [][ConcNext]_vars

(***************************************************************************)
(* The claims.  They are stated over the stream state itself: which        *)
(* standard handle is a console, what name is bound to it, what each       *)
(* descriptor is.                                                          *)
(***************************************************************************)
\* a call has come to its end on thread t, by a return or by a panic
Ended(t) == pc[t] \in {"done", "panicked"}

\* the standard handle a selector stands for
StdHandleFor(s) ==
    CASE s = "Stdin"  -> "STD_INPUT"
      [] s = "Stdout" -> "STD_OUTPUT"
      [] s = "Stderr" -> "STD_ERROR"

\* the descriptor a selector stands for
FilenoFor(s) ==
    CASE s = "Stdin"  -> 0
      [] s = "Stdout" -> 1
      [] s = "Stderr" -> 2

IsConsole(h) == os.handles[h].console

NoConsoleAtAll == \A h \in StdHandles : ~IsConsole(h)

\* the file-name query on h succeeds: there is a name and it fits the buffer
NameQuerySucceeds(h) ==
    /\ os.handles[h].info # "none"
    /\ Len(FileNames[os.handles[h].info]) <= MAX_PATH

\* the name bound to h carries a bridge prefix and the pty marker
BothMarkers(h) ==
    LET n == FileNames[os.handles[h].info]
    IN  (Contains(n, MSYS) \/ Contains(n, CYGWIN)) /\ Contains(n, PTY)

\* an ended call of is(s) on the Windows build
WindowsIsEnded(t) == cfg_windows(target) /\ Ended(t) /\ fn[t] = "is"

\* C1: is(selector) always ends by returning a boolean: it never panics and
\* never slices the name buffer past its MAX_PATH units
C1_NeverPanics ==
    \A t \in Threads : pc[t] # "panicked" /\ sliceEnd[t] <= MAX_PATH

\* C2: on Windows, when the requested stream's handle is a console,
\* is(selector) returns true, whatever the other handles are and whatever
\* name is bound to the requested one
C2_ConsoleIsTrue ==
    \A t \in Threads :
        (WindowsIsEnded(t) /\ IsConsole(StdHandleFor(stream[t])))
            => (pc[t] = "done" /\ result[t] = TRUE)

C2_Witness ==
    \E t \in Threads :
        /\ WindowsIsEnded(t) /\ pc[t] = "done"
        /\ IsConsole(StdHandleFor(stream[t]))
        /\ os.handles[StdHandleFor(stream[t])].info = "msys-pty"
        /\ \A h \in StdHandles \ {StdHandleFor(stream[t])} : ~IsConsole(h)

\* C3: on Windows, when the requested stream's handle is no console and one of
\* the other two is, is(selector) returns false, also when the name bound to
\* the requested handle carries both markers
C3_OtherConsoleIsFalse ==
    \A t \in Threads :
        (/\ WindowsIsEnded(t)
         /\ ~IsConsole(StdHandleFor(stream[t]))
         /\ \E h \in StdHandles \ {StdHandleFor(stream[t])} : IsConsole(h))
            => (pc[t] = "done" /\ result[t] = FALSE)

C3_Witness ==
    \E t \in Threads :
        /\ WindowsIsEnded(t) /\ pc[t] = "done" /\ stream[t] = "Stdout"
        /\ ~IsConsole("STD_OUTPUT") /\ ~IsConsole("STD_INPUT") /\ IsConsole("STD_ERROR")
        /\ os.handles["STD_OUTPUT"].info = "msys-pty"
        /\ result[t] = FALSE

\* C4: on Windows, when no standard handle is a console and the file-name
\* query on the requested handle succeeds, is(selector) returns true exactly
\* when the name carries ("msys-" or "cygwin-") and "-pty"
C4_MarkersDecide ==
    \A t \in Threads :
        (/\ WindowsIsEnded(t)
         /\ NoConsoleAtAll
         /\ NameQuerySucceeds(StdHandleFor(stream[t])))
            => (pc[t] = "done" /\ result[t] = BothMarkers(StdHandleFor(stream[t])))

\* C4, for the names of at most MAX_PATH / 2 units only
C4_MarkersDecideShortNames ==
    \A t \in Threads :
        (/\ WindowsIsEnded(t)
         /\ NoConsoleAtAll
         /\ NameQuerySucceeds(StdHandleFor(stream[t]))
         /\ 2 * Len(FileNames[os.handles[StdHandleFor(stream[t])].info]) <= MAX_PATH)
            => (pc[t] = "done" /\ result[t] = BothMarkers(StdHandleFor(stream[t])))

\* C5: on Windows, when no standard handle is a console and the file-name
\* query on the requested handle fails, is(selector) returns false, no error
\* comes out of it, and the name buffer is never sliced
C5_NameQueryFailureIsFalse ==
    \A t \in Threads :
        (/\ WindowsIsEnded(t)
         /\ NoConsoleAtAll
         /\ ~NameQuerySucceeds(StdHandleFor(stream[t])))
            => (pc[t] = "done" /\ result[t] = FALSE /\ sliceEnd[t] = -1)

C5_Witness ==
    \E t \in Threads :
        /\ WindowsIsEnded(t) /\ pc[t] = "done"
        /\ NoConsoleAtAll
        /\ os.handles[StdHandleFor(stream[t])].info = "msys-pty-too-long"
        /\ probes[t][Len(probes[t])] = <<"GetFileInformationByHandleEx", StdHandleFor(stream[t])>>

\* C6: on a POSIX-like host, is(selector) is isatty != 0 on the selector's
\* own descriptor, the one probe it makes; a descriptor that is closed or no
\* terminal gives false, never an error
C6_PosixIsIsatty ==
    \A t \in Threads :
        (target.unix /\ target.arch # "wasm32" /\ Ended(t) /\ fn[t] = "is")
            => /\ pc[t] = "done"
               /\ result[t] = (os.fds[FilenoFor(stream[t])] = "tty")
               /\ probes[t] = << <<"isatty", FilenoFor(stream[t])>> >>

C6_Witness ==
    \E t \in Threads :
        /\ target.unix /\ target.arch # "wasm32"
        /\ pc[t] = "done" /\ fn[t] = "is" /\ stream[t] = "Stdout"
        /\ os.fds[1] = "closed" /\ os.fds[0] = "tty" /\ os.fds[2] = "tty"
        /\ result[t] = FALSE

\* C7: isnt(selector) is the negation of is(selector): of two consecutive
\* calls on the same selector, one of each function, with the stream state
\* unchanged between them, one returns true and the other false
C7_IsntNegatesIs ==
    \A t \in Threads :
        (/\ pc[t] = "done"
         /\ last[t].valid
         /\ last[t].stream = stream[t]
         /\ last[t].fn # fn[t])
            => result[t] = ~last[t].val

C7_Witness ==
    \E t \in Threads :
        /\ pc[t] = "done" /\ fn[t] = "isnt" /\ result[t] = FALSE
        /\ last[t].valid /\ last[t].fn = "is" /\ last[t].stream = stream[t]
        /\ cfg_windows(target) /\ NoConsoleAtAll

\* C8: on a wasm32 or sgx target is(selector) returns false for every
\* selector and makes no native probe; a wasm32 target of the unix family
\* gets this definition and not the POSIX one, and every target gets exactly
\* one definition of `is`
C8_DegenerateIsFalse ==
    /\ \A t \in Threads :
        ((target.arch = "wasm32" \/ target.env = "sgx") /\ Ended(t) /\ fn[t] = "is")
            => (pc[t] = "done" /\ result[t] = FALSE /\ probes[t] = <<>>)
    /\ (target.arch = "wasm32" /\ target.unix) => Strategies(target) = {"degenerate"}
    /\ Cardinality(Strategies(target)) = 1

C8_Witness ==
    \E t \in Threads :
        /\ target.arch = "wasm32" /\ target.unix
        /\ pc[t] = "done" /\ fn[t] = "is" /\ stream[t] = "Stdin"
        /\ last[t].valid /\ last[t].fn = "is" /\ last[t].stream = "Stdout"

Alone(f, st, s) ==
    {IF f = "is" THEN is(strategy, st, s) ELSE isnt(strategy, st, s) :
        strategy \in Strategies(target)}

====
